---- MODULE Spec2Model ----
(***************************************************************************)
(* Model of sums.c ("File Summer"): a coordinator process partitions an    *)
(* input file into byte ranges, forks one child per range, each child sums *)
(* the 3-digit groups of its range and writes one child_result to its own  *)
(* pipe; the coordinator collects the results through epoll.               *)
(*                                                                         *)
(* A u_int64_t is represented by the integer with the same 64 bits in      *)
(* two's complement: values below 2^63 by themselves, 2^64-1 by -1 (the    *)
(* value the source itself writes and compares against).                   *)
(***************************************************************************)
EXTENDS Integers, Sequences, FiniteSets, TLC

VARIABLES
    input,          \* bytes of the input file / of standard input
    opts,           \* struct program_options after handle_options
    pc,             \* position of the coordinator (main)
    i,              \* loop index of the spawn loop in main
    list,           \* the child_list, head excluded
    new_child,      \* add_child: the node being set up, NoChild otherwise
    child,          \* the forked child processes, in fork order
    pipes,          \* per pipe: the records written and not yet read
    epoll,          \* read ends registered with the epoll instance
    final_sum,      \* main: final_sum
    waiting_for,    \* main: waiting_for
    out,            \* lines written to the output file
    warnings,       \* lines written to stderr
    faults          \* how often the environment has interfered so far

vars == <<input, opts, pc, i, list, new_child, child, pipes, epoll,
          final_sum, waiting_for, out, warnings, faults>>

----------------------------------------------------------------------------
(* Bounds of the model *)

MaxLen == 7
MaxChildren == 3

\* longest input of the runs with more children than bytes
MaxOverLen == 3

\* longest input of the runs checked for liveness
MaxLiveLen == 2

\* how many times the environment may interfere in one run
MaxFaults == 1

\* byte values that occur in the inputs: '1' and 'a'
Bytes == {49, 97}

\* values an uninitialised u_int64_t / u_int16_t may hold
Garbage == {0, 5}

----------------------------------------------------------------------------
(* Program constants *)

U16 == 65536

\* sizeof(struct child_result): u_int16_t, 6 bytes padding, u_int64_t
RecordSize == 16

\* offset of child_result.sum inside the struct
SumOffset == 8

NoChild == [fds |-> -1, seek_to |-> 0, read_to |-> 0, child_num |-> 0]

NoResult == [child_num |-> 0, sum |-> 0]

\* child_handler: "return 0", the exit status of a child that ran to its end
ExitSuccess == 0

\* the status of a child that has not exited
NoStatus == -1

----------------------------------------------------------------------------
(* The scan of a child *)

isdigit(c) == c \in 48..57

RECURSIVE atoiFrom(_, _, _)
atoiFrom(s, k, acc) ==
    IF k <= Len(s) /\ isdigit(s[k])
    THEN atoiFrom(s, k + 1, acc * 10 + (s[k] - 48))
    ELSE acc

atoi(s) == atoiFrom(s, 1, 0)

\* fgetc on a stream positioned at offset off returns EOF
AtEOF(data, off) == off >= Len(data)

\* ScanStep with a non-digit ending the pending group
ScanStepNonDigitResets(st, c) ==
    LET take == st.c_count < 3 /\ isdigit(c)
        buf1 == IF take THEN [st.buf EXCEPT ![st.c_count + 1] = c] ELSE st.buf
        cnt1 == IF take THEN st.c_count + 1 ELSE 0
    IN  IF cnt1 >= 3
        THEN [buf |-> buf1, c_count |-> 0, sum |-> st.sum + atoi(buf1)]
        ELSE [buf |-> buf1, c_count |-> cnt1, sum |-> st.sum]

\* one iteration of the loop body shared by handle_stdin and handle_file
ScanStep(st, c) ==
    LET take == st.c_count < 3 /\ isdigit(c)
        buf1 == IF take THEN [st.buf EXCEPT ![st.c_count + 1] = c] ELSE st.buf
        cnt1 == IF take THEN st.c_count + 1 ELSE st.c_count
    IN  IF cnt1 >= 3
        THEN [buf |-> buf1, c_count |-> 0, sum |-> st.sum + atoi(buf1)]
        ELSE [buf |-> buf1, c_count |-> cnt1, sum |-> st.sum]

ScanInit == [buf |-> <<0, 0, 0>>, c_count |-> 0, sum |-> 0]

\* a <= b between two u_int64_t
ULe(a, b) == IF (a < 0) = (b < 0) THEN a <= b ELSE b < 0

\* the loop test of handle_file: pos <= read_to && fgetc(file) != EOF
FileLoopTest(data, off, pos, read_to) == ULe(pos, read_to) /\ ~AtEOF(data, off)

RECURSIVE FileLoop(_, _, _, _, _, _)
FileLoop(data, off, pos, read_to, st, seen) ==
    IF FileLoopTest(data, off, pos, read_to)
    THEN FileLoop(data, off + 1, pos + 1, read_to,
                  ScanStep(st, data[off + 1]), seen \cup {off})
    ELSE [sum |-> st.sum, seen |-> seen]

RECURSIVE StdinLoop(_, _, _, _)
StdinLoop(data, off, st, seen) ==
    IF ~AtEOF(data, off)
    THEN StdinLoop(data, off + 1, ScanStep(st, data[off + 1]), seen \cup {off})
    ELSE [sum |-> st.sum, seen |-> seen]

\* open_and_seek_to: the offset the opened stream is positioned at; fseek to
\* a negative offset fails and leaves the stream at its start
open_and_seek_to(position) == IF position < 0 THEN 0 ELSE position

handle_file(data, off, child_num, seek_to, read_to) ==
    LET r == FileLoop(data, off, seek_to, read_to, ScanInit, {})
    IN  [result |-> [child_num |-> child_num, sum |-> r.sum], seen |-> r.seen]

handle_stdin(data, child_num) ==
    LET r == StdinLoop(data, 0, ScanInit, {})
    IN  [result |-> [child_num |-> child_num, sum |-> r.sum], seen |-> r.seen]

\* the read_to a child uses: -1 means "to the end of the file"
EffectiveReadTo(info) ==
    IF info.read_to = -1 THEN opts.st_size ELSE info.read_to

child_handler(info) ==
    IF opts.input_file = "-"
    THEN handle_stdin(input, info.child_num)
    ELSE handle_file(input, open_and_seek_to(info.seek_to), info.child_num,
                     info.seek_to, EffectiveReadTo(info))

----------------------------------------------------------------------------
(* Initial states: the program after handle_options *)

RECURSIVE SeqsUpTo(_)
SeqsUpTo(n) ==
    IF n = 0 THEN {<<>>}
    ELSE LET S == SeqsUpTo(n - 1)
         IN  S \cup {Append(s, b) : s \in {t \in S : Len(t) = n - 1}, b \in Bytes}

\* the option values parse_opt can leave behind: defaults, -c N, --block-size S
ParsedOptions ==
    {[child_count |-> 1, block_size |-> 0,
      used_block |-> FALSE, used_child |-> FALSE]}
    \cup {[child_count |-> n, block_size |-> 0,
           used_block |-> FALSE, used_child |-> TRUE] : n \in 1..MaxChildren}
    \cup {[child_count |-> 1, block_size |-> s,
           used_block |-> TRUE, used_child |-> FALSE] : s \in 1..(MaxLen + 1)}

Init ==
    /\ input \in SeqsUpTo(MaxLen)
    /\ \E f \in {"-", "file"}, p \in ParsedOptions :
          /\ f = "file" /\ p.block_size > 0 => Len(input) \div p.block_size <= MaxChildren
          /\ opts = [input_file |-> f, child_count |-> p.child_count,
                     block_size |-> p.block_size,
                     used_block |-> p.used_block, used_child |-> p.used_child,
                     st_size |-> 0]
    /\ pc = "start"
    /\ i = 0
    /\ list = <<>>
    /\ new_child = NoChild
    /\ child = <<>>
    /\ pipes = <<>>
    /\ epoll = {}
    /\ final_sum = 0
    /\ waiting_for = 0
    /\ out = <<>>
    /\ warnings = <<>>
    /\ faults = 0

----------------------------------------------------------------------------
(* main, lines 486-529: input selection and sizing *)

\* the size stat reports for the input file
StatSize == Len(input)

\* child_count computed from a block size, stored in a u_int16_t
CountFromBlock(size, block) == (size \div block) % U16

\* BlockFromCount with the division rounded up
BlockFromCountRoundsUp(size, count) == (size + count - 1) \div count

\* block_size computed from a child count
BlockFromCount(size, count) == size \div count

Sizing(o) ==
    IF o.block_size > 0
    THEN [o EXCEPT !.child_count = CountFromBlock(o.st_size, o.block_size)]
    ELSE [o EXCEPT !.block_size = BlockFromCount(o.st_size, o.child_count)]

\* ConfigureStdin with the requested child count left in place
ConfigureStdinKeepsCount ==
    /\ pc = "start"
    /\ opts.input_file = "-"
    /\ warnings' = warnings
                   \o (IF opts.block_size # 0
                       THEN <<<<"ignoring block size", opts.block_size>>>> ELSE <<>>)
                   \o (IF opts.child_count > 1
                       THEN <<<<"ignoring child count", opts.child_count>>>> ELSE <<>>)
    /\ opts' = Sizing([opts EXCEPT !.block_size = 0])
    /\ waiting_for' = opts'.child_count
    /\ pc' = "spawn"
    /\ UNCHANGED faults
    /\ UNCHANGED <<input, i, list, new_child, child, pipes, epoll, final_sum, out>>

ConfigureStdin ==
    /\ pc = "start"
    /\ opts.input_file = "-"
    /\ warnings' = warnings
                   \o (IF opts.block_size # 0
                       THEN <<<<"ignoring block size", opts.block_size>>>> ELSE <<>>)
                   \o (IF opts.child_count > 1
                       THEN <<<<"ignoring child count", opts.child_count>>>> ELSE <<>>)
    /\ opts' = Sizing([opts EXCEPT !.block_size = 0, !.child_count = 1])
    /\ waiting_for' = opts'.child_count
    /\ pc' = "spawn"
    /\ UNCHANGED faults
    /\ UNCHANGED <<input, i, list, new_child, child, pipes, epoll, final_sum, out>>

\* ConfigureFile with waiting_for taken before the sizing
ConfigureFileCountsEarly ==
    /\ pc = "start"
    /\ opts.input_file # "-"
    /\ opts' = Sizing([opts EXCEPT !.st_size = StatSize])
    /\ out' = Append(out, <<"File size", StatSize>>)
    /\ waiting_for' = opts.child_count
    /\ pc' = "spawn"
    /\ UNCHANGED faults
    /\ UNCHANGED <<input, i, list, new_child, child, pipes, epoll, final_sum,
                   warnings>>

ConfigureFile ==
    /\ pc = "start"
    /\ opts.input_file # "-"
    /\ opts' = Sizing([opts EXCEPT !.st_size = StatSize])
    /\ out' = Append(out, <<"File size", StatSize>>)
    /\ waiting_for' = opts'.child_count
    /\ pc' = "spawn"
    /\ UNCHANGED faults
    /\ UNCHANGED <<input, i, list, new_child, child, pipes, epoll, final_sum,
                   warnings>>

\* stat returns -1: exit(EXIT_FAILURE)
StatFail ==
    /\ pc = "start"
    /\ opts.input_file # "-"
    /\ pc' = "failed"
    /\ UNCHANGED faults
    /\ UNCHANGED <<input, opts, i, list, new_child, child, pipes, epoll,
                   final_sum, waiting_for, out, warnings>>

----------------------------------------------------------------------------
(* main, lines 531-546, and add_child *)

\* conversion of a u_int64_t argument to the int parameter of add_child
IntMax == 2147483647
AsInt(x) == IF x <= IntMax THEN x ELSE x - IntMax - IntMax - 2

\* conversion of the int parameter back to the u_int64_t field: sign
\* extension, which keeps the two's complement integer
AsU64(x) == x

\* main: the block boundaries of child number k
SeekTo(k) == k * opts.block_size

\* ReadTo with the end of a block one byte too far
ReadToNextStart(k) ==
    IF k + 1 = opts.child_count THEN -1 ELSE (k + 1) * opts.block_size

ReadTo(k) ==
    IF k + 1 = opts.child_count THEN -1 ELSE (k + 1) * opts.block_size - 1

\* AddChildFork with the head node counted in when the list is walked
AddChildForkCountsHead ==
    /\ pc = "spawn"
    /\ i < opts.child_count
    /\ LET info == [fds |-> Len(pipes),
                    seek_to |-> AsU64(AsInt(SeekTo(i))),
                    read_to |-> AsU64(AsInt(ReadTo(i))),
                    child_num |-> Len(list) + 1]
       IN  /\ new_child' = info
           /\ pipes' = Append(pipes, <<>>)
           /\ child' = Append(child, [state |-> "running", info |-> info,
                                      seen |-> {}, result |-> NoResult,
                                      status |-> NoStatus])
    /\ pc' = "register"
    /\ UNCHANGED faults
    /\ UNCHANGED <<input, opts, i, list, epoll, final_sum, waiting_for, out,
                   warnings>>

\* add_child up to and including a successful fork
AddChildFork ==
    /\ pc = "spawn"
    /\ i < opts.child_count
    /\ LET info == [fds |-> Len(pipes),
                    seek_to |-> AsU64(AsInt(SeekTo(i))),
                    read_to |-> AsU64(AsInt(ReadTo(i))),
                    child_num |-> Len(list)]
       IN  /\ new_child' = info
           /\ pipes' = Append(pipes, <<>>)
           /\ child' = Append(child, [state |-> "running", info |-> info,
                                      seen |-> {}, result |-> NoResult,
                                      status |-> NoStatus])
    /\ pc' = "register"
    /\ UNCHANGED faults
    /\ UNCHANGED <<input, opts, i, list, epoll, final_sum, waiting_for, out,
                   warnings>>

\* pipe returns -1: exit(1)
PipeFail ==
    /\ pc = "spawn"
    /\ i < opts.child_count
    /\ pc' = "failed"
    /\ UNCHANGED faults
    /\ UNCHANGED <<input, opts, i, list, new_child, child, pipes, epoll,
                   final_sum, waiting_for, out, warnings>>

\* fork returns -1: the pipe exists, exit(1)
ForkFail ==
    /\ pc = "spawn"
    /\ i < opts.child_count
    /\ pipes' = Append(pipes, <<>>)
    /\ pc' = "failed"
    /\ UNCHANGED faults
    /\ UNCHANGED <<input, opts, i, list, new_child, child, epoll,
                   final_sum, waiting_for, out, warnings>>

\* AddChildRegister without the epoll_ctl ADD
AddChildRegisterNoAdd ==
    /\ pc = "register"
    /\ list' = Append(list, new_child)
    /\ new_child' = NoChild
    /\ i' = i + 1
    /\ pc' = "spawn"
    /\ UNCHANGED faults
    /\ UNCHANGED <<input, opts, child, pipes, epoll, final_sum, waiting_for, out,
                   warnings>>

\* AddChildRegister with a registration that only takes effect while the
\* child has not written yet
AddChildRegisterIfRunning ==
    /\ pc = "register"
    /\ epoll' = IF child[Len(child)].state = "running"
                THEN epoll \cup {new_child.fds} ELSE epoll
    /\ list' = Append(list, new_child)
    /\ new_child' = NoChild
    /\ i' = i + 1
    /\ pc' = "spawn"
    /\ UNCHANGED faults
    /\ UNCHANGED <<input, opts, child, pipes, final_sum, waiting_for, out,
                   warnings>>

\* add_child after the fork, in the parent: epoll_ctl ADD, list append, i++
AddChildRegister ==
    /\ pc = "register"
    /\ epoll' = epoll \cup {new_child.fds}
    /\ list' = Append(list, new_child)
    /\ new_child' = NoChild
    /\ i' = i + 1
    /\ pc' = "spawn"
    /\ UNCHANGED faults
    /\ UNCHANGED <<input, opts, child, pipes, final_sum, waiting_for, out,
                   warnings>>

\* LoopTest leaving the loop one child early
LoopTestEarly(w) == IF w > 1 THEN "wait" ELSE "report"

\* the test of the while loop: wait again, or leave the loop
LoopTest(w) == IF w > 0 THEN "wait" ELSE "report"

\* SpawnDone leaving for the report without the collection loop
SpawnDoneSkipsLoop ==
    /\ pc = "spawn"
    /\ ~(i < opts.child_count)
    /\ pc' = "report"
    /\ UNCHANGED faults
    /\ UNCHANGED <<input, opts, i, list, new_child, child, pipes, epoll,
                   final_sum, waiting_for, out, warnings>>

\* the for loop ends and the while loop is entered
SpawnDone ==
    /\ pc = "spawn"
    /\ ~(i < opts.child_count)
    /\ pc' = LoopTest(waiting_for)
    /\ UNCHANGED faults
    /\ UNCHANGED <<input, opts, i, list, new_child, child, pipes, epoll,
                   final_sum, waiting_for, out, warnings>>

----------------------------------------------------------------------------
(* The children *)

\* ChildRun with the record written twice
ChildRunWritesTwice(w) ==
    /\ w \in DOMAIN child
    /\ child[w].state = "running"
    /\ LET r == child_handler(child[w].info)
       IN  /\ pipes' = [pipes EXCEPT ![child[w].info.fds + 1] =
                                         Append(Append(@, r.result), r.result)]
           /\ child' = [child EXCEPT ![w].state = "exited", ![w].seen = r.seen,
                                     ![w].result = r.result,
                                     ![w].status = ExitSuccess]
    /\ UNCHANGED faults
    /\ UNCHANGED <<input, opts, pc, i, list, new_child, epoll, final_sum,
                   waiting_for, out, warnings>>

\* child w runs child_handler to its end: scan, write, close, exit
ChildRun(w) ==
    /\ w \in DOMAIN child
    /\ child[w].state = "running"
    /\ LET r == child_handler(child[w].info)
       IN  /\ pipes' = [pipes EXCEPT ![child[w].info.fds + 1] = Append(@, r.result)]
           /\ child' = [child EXCEPT ![w].state = "exited", ![w].seen = r.seen,
                                     ![w].result = r.result,
                                     ![w].status = ExitSuccess]
    /\ UNCHANGED faults
    /\ UNCHANGED <<input, opts, pc, i, list, new_child, epoll, final_sum,
                   waiting_for, out, warnings>>

----------------------------------------------------------------------------
(* main, lines 550-584: the collection loop *)

\* the processes that hold the write end of pipe fd open: the parent never
\* closes it, a child inherits the pipes created before its fork
Writers(fd) ==
    (IF pc \in {"done", "failed"} THEN {} ELSE {0})
    \cup {w \in 1..Len(child) : child[w].state = "running" /\ child[w].info.fds >= fd}

\* epoll reports fd: it is registered and readable or hung up
Ready(fd) ==
    /\ fd \in epoll
    /\ (pipes[fd + 1] # <<>> \/ Writers(fd) = {})

\* Collect with final_sum assigned instead of accumulated
CollectAssigns(fd, bytes, result) ==
    /\ IF bytes > 0
       THEN /\ out' = Append(out, <<"Child", result.child_num, result.sum>>)
            /\ final_sum' = result.sum
            /\ waiting_for' = (waiting_for - 1) % U16
            /\ epoll' = epoll \ {fd}
       ELSE /\ epoll' = epoll \ {fd}
            /\ UNCHANGED <<out, final_sum, waiting_for>>
    /\ pc' = LoopTest(waiting_for')

\* Collect with the descriptor left registered after a read without data
CollectKeepsFailed(fd, bytes, result) ==
    /\ IF bytes > 0
       THEN /\ out' = Append(out, <<"Child", result.child_num, result.sum>>)
            /\ final_sum' = final_sum + result.sum
            /\ waiting_for' = (waiting_for - 1) % U16
            /\ epoll' = epoll \ {fd}
       ELSE UNCHANGED <<epoll, out, final_sum, waiting_for>>
    /\ pc' = LoopTest(waiting_for')

\* the body of the while loop after read returned bytes and filled result
Collect(fd, bytes, result) ==
    /\ IF bytes > 0
       THEN /\ out' = Append(out, <<"Child", result.child_num, result.sum>>)
            /\ final_sum' = final_sum + result.sum
            /\ waiting_for' = (waiting_for - 1) % U16
            /\ epoll' = epoll \ {fd}
       ELSE /\ epoll' = epoll \ {fd}
            /\ UNCHANGED <<out, final_sum, waiting_for>>
    /\ pc' = LoopTest(waiting_for')

\* epoll_wait returns a ready fd and read returns what the pipe holds
WaitRead ==
    /\ pc = "wait"
    /\ \E fd \in epoll :
          /\ Ready(fd)
          /\ IF pipes[fd + 1] # <<>>
             THEN /\ Collect(fd, RecordSize, Head(pipes[fd + 1]))
                  /\ pipes' = [pipes EXCEPT ![fd + 1] = Tail(@)]
             ELSE /\ Collect(fd, 0, NoResult)
                  /\ pipes' = pipes
    /\ UNCHANGED faults
    /\ UNCHANGED <<input, opts, i, list, new_child, child, warnings>>

\* line 583
Report ==
    /\ pc = "report"
    /\ out' = Append(out, <<"Final Sum", final_sum>>)
    /\ pc' = "done"
    /\ UNCHANGED faults
    /\ UNCHANGED <<input, opts, i, list, new_child, child, pipes, epoll,
                   final_sum, waiting_for, warnings>>

----------------------------------------------------------------------------

(* What the program does not control *)

\* child w is terminated from outside before it writes its record
Kill(w) ==
    /\ faults < MaxFaults
    /\ child[w].state = "running"
    /\ child' = [child EXCEPT ![w].state = "killed"]
    /\ faults' = faults + 1
    /\ UNCHANGED <<input, opts, pc, i, list, new_child, pipes, epoll, final_sum,
                   waiting_for, out, warnings>>

\* read returns -1 on a registered descriptor
ReadFails ==
    /\ faults < MaxFaults
    /\ pc = "wait"
    /\ \E fd \in epoll : Collect(fd, -1, NoResult)
    /\ faults' = faults + 1
    /\ UNCHANGED <<input, opts, i, list, new_child, child, pipes, warnings>>

\* read returns 0 on a registered descriptor: end of file, nothing written
ReadEmpty ==
    /\ faults < MaxFaults
    /\ pc = "wait"
    /\ \E fd \in epoll :
          /\ pipes[fd + 1] = <<>>
          /\ Collect(fd, 0, NoResult)
    /\ faults' = faults + 1
    /\ UNCHANGED <<input, opts, i, list, new_child, child, pipes, warnings>>

\* what is in result after read stored only the first bytes of rec in it:
\* the fields not reached keep what the uninitialised struct held
PartialResult(rec, bytes, g) ==
    [child_num |-> IF bytes >= 2 THEN rec.child_num ELSE g,
     sum |-> IF bytes <= SumOffset \/ g # 0 THEN g ELSE rec.sum]

\* read returns fewer bytes than sizeof(struct child_result)
ShortRead ==
    /\ faults < MaxFaults
    /\ pc = "wait"
    /\ \E fd \in epoll, bytes \in {1, SumOffset, RecordSize - 1}, g \in Garbage :
          /\ pipes[fd + 1] # <<>>
          /\ Collect(fd, bytes, PartialResult(Head(pipes[fd + 1]), bytes, g))
          /\ pipes' = [pipes EXCEPT ![fd + 1] = Tail(@)]
    /\ faults' = faults + 1
    /\ UNCHANGED <<input, opts, i, list, new_child, child, warnings>>

----------------------------------------------------------------------------

Coordinator ==
    \/ ConfigureStdin
    \/ ConfigureFile
    \/ StatFail
    \/ AddChildFork
    \/ PipeFail
    \/ ForkFail
    \/ AddChildRegister
    \/ SpawnDone
    \/ WaitRead
    \/ Report

Children == \E w \in 1..Len(child) : ChildRun(w)

Next == Coordinator \/ Children

Spec == Init /\ [][Next]_vars

\* the coordinator and every child are processes the kernel keeps scheduling
Fairness ==
    /\ WF_vars(Coordinator)
    /\ \A w \in 1..MaxChildren : WF_vars(ChildRun(w))

\* the runs whose input is short: enough for every schedule of the processes
LiveInit == Init /\ Len(input) <= MaxLiveLen

FairSpec == LiveInit /\ [][Next]_vars /\ Fairness

\* children may be killed from outside
Killed == \E w \in 1..Len(child) : Kill(w)

NextKill == Next \/ Killed

KillSpec == LiveInit /\ [][NextKill]_vars /\ Fairness

\* read may also return an error, end of file or a short count
NextIO == Next \/ ReadFails \/ ReadEmpty \/ ShortRead

IOSpec == Init /\ [][NextIO]_vars

\* the same on short inputs: what is read matters, not what was summed
ReadSpec == LiveInit /\ [][NextIO]_vars

----------------------------------------------------------------------------
(* The runs on a file with -c N and fewer bytes than children *)

OverInit ==
    /\ input \in SeqsUpTo(MaxOverLen) \ {<<>>}
    /\ \E n \in 2..(MaxOverLen + 1) :
          /\ n > Len(input)
          /\ opts = [input_file |-> "file", child_count |-> n, block_size |-> 0,
                     used_block |-> FALSE, used_child |-> TRUE, st_size |-> 0]
    /\ pc = "start"
    /\ i = 0
    /\ list = <<>>
    /\ new_child = NoChild
    /\ child = <<>>
    /\ pipes = <<>>
    /\ epoll = {}
    /\ final_sum = 0
    /\ waiting_for = 0
    /\ out = <<>>
    /\ warnings = <<>>
    /\ faults = 0

\* the steps of a run whose input is a file
FileNext ==
    \/ ConfigureFile
    \/ StatFail
    \/ AddChildFork
    \/ PipeFail
    \/ ForkFail
    \/ AddChildRegister
    \/ SpawnDone
    \/ WaitRead
    \/ Report
    \/ Children

OverSpec == OverInit /\ [][FileNext]_vars

----------------------------------------------------------------------------
(* The spawn loop with offsets at their full width.  A TLC integer holds   *)
(* 32 bits, so a u_int64_t is written here as its four 16-bit limbs, the  *)
(* least significant first, and an int as the integer itself.             *)

Limb == 65536

\* the u_int64_t with the value of the non-negative int n
WideOf(n) == <<n % Limb, (n \div Limb) % Limb, 0, 0>>

\* a + b between two u_int64_t, modulo 2^64
WideAdd(a, b) ==
    LET s1 == a[1] + b[1]
        s2 == a[2] + b[2] + s1 \div Limb
        s3 == a[3] + b[3] + s2 \div Limb
        s4 == a[4] + b[4] + s3 \div Limb
    IN  <<s1 % Limb, s2 % Limb, s3 % Limb, s4 % Limb>>

\* k * a for an int k >= 0 and a u_int64_t a, modulo 2^64
RECURSIVE WideTimes(_, _)
WideTimes(k, a) == IF k = 0 THEN WideOf(0) ELSE WideAdd(a, WideTimes(k - 1, a))

\* (u_int64_t) -1
WideMinusOne == <<Limb - 1, Limb - 1, Limb - 1, Limb - 1>>

\* a - 1, modulo 2^64
WidePred(a) == WideAdd(a, WideMinusOne)

\* a u_int64_t argument converted to an int parameter: the low 32 bits, in
\* two's complement
WideToInt(a) == (IF a[2] < Limb \div 2 THEN a[2] ELSE a[2] - Limb) * Limb + a[1]

\* an int assigned to a u_int64_t field: sign extension
IntToWide(x) ==
    <<x % Limb, (x \div Limb) % Limb,
      IF x < 0 THEN Limb - 1 ELSE 0, IF x < 0 THEN Limb - 1 ELSE 0>>

\* block sizes the sizing can leave behind for a large file: around 2^30,
\* 2^31 and 2^32, and small ones
WideBlocks ==
    {<<a, b, c, 0>> : a \in {0, 1, Limb - 1},
                      b \in {0, Limb \div 4, Limb \div 2, Limb - 1},
                      c \in {0, 1}}
    \ {WideOf(0)}

\* main after the sizing of a file, before the spawn loop
WideInit ==
    /\ input = <<>>
    /\ \E n \in 1..MaxChildren, s \in WideBlocks :
          opts = [input_file |-> "file", child_count |-> n, block_size |-> s,
                  used_block |-> FALSE, used_child |-> TRUE, st_size |-> 0]
    /\ pc = "spawn"
    /\ i = 0
    /\ list = <<>>
    /\ new_child = NoChild
    /\ child = <<>>
    /\ pipes = <<>>
    /\ epoll = {}
    /\ final_sum = 0
    /\ waiting_for = opts.child_count
    /\ out = <<>>
    /\ warnings = <<>>
    /\ faults = 0

\* main: the block boundaries of child number k
WideSeekTo(k) == WideTimes(k, opts.block_size)

WideReadTo(k) ==
    IF k + 1 = opts.child_count
    THEN WideMinusOne
    ELSE WidePred(WideTimes(k + 1, opts.block_size))

\* one pass of the spawn loop: the call of add_child with its parameters
\* converted, the fork, the registration and the list append
WideAddChild ==
    /\ pc = "spawn"
    /\ i < opts.child_count
    /\ LET info == [fds |-> Len(pipes),
                    seek_to |-> IntToWide(WideToInt(WideSeekTo(i))),
                    read_to |-> IntToWide(WideToInt(WideReadTo(i))),
                    child_num |-> Len(list)]
       IN  /\ list' = Append(list, info)
           /\ pipes' = Append(pipes, <<>>)
           /\ epoll' = epoll \cup {info.fds}
           /\ child' = Append(child, [state |-> "running", info |-> info,
                                      to_end |-> FALSE])
    /\ i' = i + 1
    /\ UNCHANGED <<input, opts, pc, new_child, final_sum, waiting_for, out,
                   warnings, faults>>

\* child_handler, lines 364-368: does child w read to the end of the file
WideChildHandler(w) ==
    /\ w \in DOMAIN child
    /\ child[w].state = "running"
    /\ child' = [child EXCEPT ![w].state = "ranged",
                              ![w].to_end = (child[w].info.read_to = WideMinusOne)]
    /\ UNCHANGED <<input, opts, pc, i, list, new_child, pipes, epoll, final_sum,
                   waiting_for, out, warnings, faults>>

\* the for loop ends
WideSpawnDone ==
    /\ pc = "spawn"
    /\ ~(i < opts.child_count)
    /\ pc' = "wait"
    /\ UNCHANGED <<input, opts, i, list, new_child, child, pipes, epoll,
                   final_sum, waiting_for, out, warnings, faults>>

WideNext ==
    \/ WideAddChild
    \/ WideSpawnDone
    \/ \E w \in 1..Len(child) : WideChildHandler(w)

WideSpec == WideInit /\ [][WideNext]_vars

----------------------------------------------------------------------------
(* Properties *)

AllExited ==
    /\ pc \notin {"start", "failed"}
    /\ Len(child) = opts.child_count
    /\ \A w \in 1..Len(child) : child[w].state = "exited"

\* the workers that scanned offset p
ScannedBy(p) == {w \in 1..Len(child) : p \in child[w].seen}

\* the scanned sets partition [0, L)
ScansPartition ==
    /\ \A p \in 0..(Len(input) - 1) : Cardinality(ScannedBy(p)) = 1
    /\ \A w \in 1..Len(child) : child[w].seen \subseteq 0..(Len(input) - 1)

\* the case of C1: a file, a child count N and no block size, N <= L if L > 0
CountCase ==
    /\ pc \notin {"start", "failed"}
    /\ opts.input_file # "-"
    /\ ~opts.used_block
    /\ Len(input) > 0 => opts.child_count <= Len(input)

Digits(data) == SelectSeq(data, LAMBDA c : c \in 48..57)

GroupValue(d, k) ==
    100 * (d[3 * k + 1] - 48) + 10 * (d[3 * k + 2] - 48) + (d[3 * k + 3] - 48)

RECURSIVE SumGroups(_, _)
SumGroups(d, n) == IF n = 0 THEN 0 ELSE SumGroups(d, n - 1) + GroupValue(d, n - 1)

\* the reference sum: the digits cut into groups of exactly three, the values
\* of the groups added, a shorter last group dropped
ReferenceSum(data) == SumGroups(Digits(data), Len(Digits(data)) \div 3)

\* "abc123def456" and "12 3"
ScenarioA == <<97, 98, 99, 49, 50, 51, 100, 101, 102, 52, 53, 54>>
ScenarioB == <<49, 50, 32, 51>>

DigitsScanned(w) == Cardinality({p \in child[w].seen : isdigit(input[p + 1])})

\* no 3-digit group straddles a boundary of the ranges scanned
NoStraddle ==
    /\ ScansPartition
    /\ \A w \in 1..(Len(child) - 1) : DigitsScanned(w) % 3 = 0

\* what one worker computes over the whole file
WholeFileSum ==
    handle_file(input, open_and_seek_to(0), 0, 0, Len(input)).result.sum

\* "000111222333", split 6/6 between two workers
ScenarioC == <<48, 48, 48, 49, 49, 49, 50, 50, 50, 51, 51, 51>>

\* C3: a finished run with N >= 2 workers whose ranges partition the input
\* and cut no 3-digit group has the final sum of a single worker over the
\* whole input.
NoStraddleSameSum ==
    /\ (pc = "done" /\ opts.child_count >= 2 /\ NoStraddle) =>
           final_sum = WholeFileSum
    /\ pc = "start" =>
           /\ handle_file(ScenarioC, 0, 0, 0, 5).result.sum = 111
           /\ handle_file(ScenarioC, 6, 1, 6, 12).result.sum = 555
           /\ handle_file(ScenarioC, 0, 0, 0, 12).result.sum = 666

NoStraddleSameSumWitness ==
    /\ pc = "done"
    /\ opts.child_count >= 2
    /\ NoStraddle
    /\ Cardinality({w \in 1..Len(child) : child[w].result.sum > 0}) >= 2

SomeKilled == \E w \in 1..Len(child) : child[w].state = "killed"

\* C4: once the coordinator waits and a worker has ended without writing its
\* record, the coordinator still terminates with pendingCount = 0.
KilledWorkerStillTerminates ==
    (pc = "wait" /\ SomeKilled) ~> (pc = "done" /\ waiting_for = 0)

\* C5: a step in which the read fails or returns 0 decrements pendingCount by
\* one, leaves totalSum unchanged and writes no per-worker line.
FailedReadDecrements ==
    [][(ReadFails \/ ReadEmpty) =>
          /\ waiting_for' = waiting_for - 1
          /\ final_sum' = final_sum
          /\ out' = out]_vars

\* C6: a step in which the read returns fewer bytes than a record adds
\* nothing to totalSum, writes no per-worker line and accounts for the worker
\* as a failed one.
ShortReadDiscarded ==
    [][ShortRead =>
          /\ final_sum' = final_sum
          /\ out' = out
          /\ waiting_for' = waiting_for - 1]_vars

\* C7: under fair scheduling, with every child running to its end, a
\* coordinator that waits eventually leaves the loop with pendingCount = 0.
AllDeliverTerminates ==
    (pc = "wait") ~> (pc = "done" /\ waiting_for = 0)

\* the per-worker lines of out, as indices
ChildLines == {k \in 1..Len(out) : out[k][1] = "Child"}

\* a finished run in which a later child was collected before an earlier one
AllDeliverTerminatesWitness ==
    /\ pc = "done"
    /\ waiting_for = 0
    /\ Len(child) = MaxChildren
    /\ \E a, b \in ChildLines : a < b /\ out[a][2] > out[b][2]

RECURSIVE SumOfResults(_)
SumOfResults(n) ==
    IF n = 0 THEN 0 ELSE SumOfResults(n - 1) + child[n].result.sum

\* C8: every per-worker line (id, sum) is the record the child with that id
\* wrote, and when the loop has ended the final sum is the sum of the sums
\* all children wrote, whatever the order of arrival.
ResultsMatchWorkers ==
    /\ \A k \in ChildLines :
          LET w == out[k][2] + 1
          IN  /\ w \in 1..Len(child)
              /\ child[w].state = "exited"
              /\ child[w].info.child_num = out[k][2]
              /\ child[w].result = [child_num |-> out[k][2], sum |-> out[k][3]]
    /\ \A a, b \in ChildLines : out[a][2] = out[b][2] => a = b
    /\ pc \in {"report", "done"} =>
          /\ Len(child) = opts.child_count
          /\ \A w \in 1..Len(child) : child[w].state = "exited"
          /\ final_sum = SumOfResults(Len(child))

\* a finished run whose children wrote different sums and were collected
\* out of order
ResultsMatchWorkersWitness ==
    /\ pc = "done"
    /\ \E a, b \in ChildLines :
          a < b /\ out[a][2] > out[b][2] /\ out[a][3] # out[b][3]

\* a step that reads a whole record from a registered pipe
ReadsRecord ==
    /\ pc = "wait"
    /\ \E fd \in epoll :
          /\ pipes[fd + 1] # <<>>
          /\ pipes' = [pipes EXCEPT ![fd + 1] = Tail(@)]
          /\ final_sum' = final_sum + Head(pipes[fd + 1]).sum

\* C9: from the sizing on the state is (0, child_count) until the loop is
\* entered; pendingCount never increases; totalSum changes only in a step
\* that reads a record, by that record's sum; and the coordinator waits
\* while pendingCount > 0 and has left the loop exactly when it is 0.
CoordinatorStateInvariant ==
    /\ [](pc \in {"spawn", "register"} =>
             final_sum = 0 /\ waiting_for = opts.child_count)
    /\ [](pc = "wait" => waiting_for > 0)
    /\ [](pc \in {"report", "done"} => waiting_for = 0)
    /\ [][pc # "start" => waiting_for' <= waiting_for]_vars
    /\ [][final_sum' # final_sum => ReadsRecord]_vars
    /\ [][out' # out /\ pc = "wait" => ReadsRecord]_vars

\* the coordinator in the middle of the collection, one record counted
CoordinatorStateInvariantWitness ==
    /\ pc = "wait"
    /\ final_sum > 0
    /\ waiting_for > 0
    /\ waiting_for < opts.child_count

HasFinalSum == \E k \in 1..Len(out) : out[k][1] = "Final Sum"

\* C10: with a block size larger than the file (computed child count 0)
\* the run does not leave the loop normally and reports no final sum.
ZeroChildrenIsFatal ==
    (pc # "start" /\ opts.input_file # "-" /\ opts.used_block
        /\ opts.child_count = 0) =>
        (pc \notin {"report", "done"} /\ ~HasFinalSum)

\* the coordinator has called exit after pipe or fork failed in add_child
SetupFailed == pc = "failed" /\ i < opts.child_count /\ opts.child_count > 0

\* C11: when creating the pipe or forking fails for some child, the run
\* aborts with no output line produced and without entering the wait loop.
SetupFailureNoOutput ==
    SetupFailed => out = <<>>

\* the input is standard input and the sizing has been done
StdinCase == opts.input_file = "-" /\ pc # "start"

\* the warnings written to stderr, by what they warn about
Warned == {warnings[k] : k \in 1..Len(warnings)}

\* C12: with standard input exactly one child is spawned, with child_num 0
\* and the range from offset 0 to the end of the stream, whatever block size
\* or child count was requested; each requested value that is overridden is
\* warned about and the step goes on to the spawn loop.
StdinSingleWorker ==
    /\ [](StdinCase =>
             /\ opts.child_count = 1
             /\ opts.block_size = 0
             /\ Len(child) <= 1
             /\ \A w \in 1..Len(child) :
                   /\ child[w].info.child_num = 0
                   /\ child[w].info.seek_to = 0
                   /\ child[w].info.read_to = -1
                   /\ child[w].state = "exited" =>
                          child[w].seen = 0..(Len(input) - 1))
    /\ [](StdinCase /\ pc \in {"wait", "report", "done"} => Len(child) = 1)
    /\ [][pc = "start" /\ opts.input_file = "-" /\ pc' # pc =>
             /\ pc' = "spawn"
             /\ out' = out
             /\ opts.block_size # 0 =>
                    <<"ignoring block size", opts.block_size>> \in Warned'
             /\ opts.child_count > 1 =>
                    <<"ignoring child count", opts.child_count>> \in Warned'
             /\ Len(warnings') = (IF opts.block_size # 0 THEN 1 ELSE 0)
                                 + (IF opts.child_count > 1 THEN 1 ELSE 0)]_vars

\* a finished run on standard input that asked for several children
StdinSingleWorkerWitness ==
    /\ StdinCase
    /\ pc = "done"
    /\ opts.used_child
    /\ warnings # <<>>
    /\ warnings[1][1] = "ignoring child count"
    /\ Len(input) >= 2
    /\ final_sum > 0
    /\ child[1].seen = 0..(Len(input) - 1)

\* the number of consecutive digits of data that end at position k
RECURSIVE RunPos(_, _)
RunPos(data, k) ==
    IF k = 0 \/ ~isdigit(data[k]) THEN 0 ELSE RunPos(data, k - 1) + 1

\* data with the 4th and later digits of every run of digits replaced by a
\* byte that is no digit
DropAfterThree(data) ==
    [k \in 1..Len(data) |-> IF RunPos(data, k) > 3 THEN 97 ELSE data[k]]

\* the input holds a run of more than three digits
HasLongRun == \E k \in 1..Len(input) : RunPos(input, k) > 3

\* C13: in a run of more than 3 consecutive digits the 4th and later digits
\* are ignored and contribute to no summed group: the sum of a single child
\* is the sum of the same scan over the input without those digits.
FourthDigitDropped ==
    (pc = "done" /\ opts.child_count = 1 /\ HasLongRun) =>
        final_sum = handle_stdin(DropAfterThree(input), 0).result.sum

\* the lines of out of one kind, as indices
LinesOf(kind) == {k \in 1..Len(out) : out[k][1] = kind}

\* C14: for a file the "File size" line is written before any child is
\* forked; each child number is in at most one "Child" line; the
\* "Final Sum" line is written at most once, exactly once in a finished run,
\* after every "Child" line and only with waiting_for = 0.
OutputOrdered ==
    /\ LinesOf("File size") \subseteq {1}
    /\ (opts.input_file # "-" /\ (child # <<>> \/ pipes # <<>>)) =>
           out # <<>> /\ out[1] = <<"File size", Len(input)>>
    /\ opts.input_file = "-" => LinesOf("File size") = {}
    /\ \A a, b \in LinesOf("Child") : out[a][2] = out[b][2] => a = b
    /\ Cardinality(LinesOf("Final Sum")) = (IF pc = "done" THEN 1 ELSE 0)
    /\ \A f \in LinesOf("Final Sum") :
          /\ f = Len(out)
          /\ waiting_for = 0
          /\ out[f][2] = final_sum
          /\ \A c \in LinesOf("Child") : c < f
    /\ pc = "report" => waiting_for = 0

\* a finished run on a file with the line of every child
OutputOrderedWitness ==
    /\ pc = "done"
    /\ opts.input_file # "-"
    /\ Len(child) = MaxChildren
    /\ Cardinality(LinesOf("Child")) = MaxChildren
    /\ Len(out) = MaxChildren + 2
    /\ final_sum > 0

\* the pipes whose read end was registered and has been handled since
Handled == (0..(Len(list) - 1)) \ epoll

\* a step of the collection loop: epoll_wait, read and what follows
LoopStep == pc = "wait" /\ child' = child /\ vars' # vars

\* C15: every pass of the collection loop does one read on one registered
\* pipe and removes that pipe from the epoll set, with or without data; a
\* pipe that left the set never enters it again, so it is read at most once
\* and its record is added to final_sum at most once.
ReadOnceThenRemoved ==
    /\ [][LoopStep =>
             \E fd \in epoll :
                /\ epoll' = epoll \ {fd}
                /\ \/ pipes' = pipes
                   \/ /\ pipes[fd + 1] # <<>>
                      /\ pipes' = [pipes EXCEPT ![fd + 1] = Tail(@)]
                /\ (final_sum' # final_sum \/ out' # out) => pipes' # pipes]_vars
    /\ [][\A fd \in epoll' \ epoll : fd \notin Handled /\ fd = Len(list)]_vars
    /\ [][Handled \subseteq Handled']_vars
    /\ [](Cardinality(LinesOf("Child")) <= Cardinality(Handled))
    /\ [](epoll \subseteq 0..(Len(list) - 1))

\* two pipes have been handled, one by a read that returned no data, while
\* another one is still registered
ReadOnceThenRemovedWitness ==
    /\ pc = "wait"
    /\ faults > 0
    /\ Cardinality(Handled) = 2
    /\ Cardinality(LinesOf("Child")) = 1
    /\ epoll # {}

\* the record child w computes: its own child_num and the sum of its scan
OwnRecord(w) ==
    [child_num |-> child[w].info.child_num,
     sum |-> child_handler(child[w].info).result.sum]

\* C16: a child writes one record, with its own child_num and its sum, to
\* its own pipe and to no other, closes the write end and exits with status
\* 0 whatever the sum; a pipe carries at most one record; the "Child" line
\* the coordinator prints from the record it read has the child_num and the
\* sum that were written.
OneRecordPerChild ==
    /\ [](\A w \in 1..Len(child) :
             /\ child[w].info.fds = w - 1
             /\ child[w].state = "running" =>
                    pipes[w] = <<>> /\ child[w].status = NoStatus
             /\ child[w].state = "exited" =>
                    /\ child[w].status = ExitSuccess
                    /\ child[w].result = OwnRecord(w)
                    /\ w \notin Writers(w - 1)
                    /\ pipes[w] \in {<<>>, <<OwnRecord(w)>>}
                    /\ pipes[w] # <<>> =>
                           \A k \in LinesOf("Child") : out[k][2] # w - 1)
    /\ [](\A k \in LinesOf("Child") :
             /\ out[k][2] + 1 \in 1..Len(child)
             /\ out[k] = <<"Child", OwnRecord(out[k][2] + 1).child_num,
                           OwnRecord(out[k][2] + 1).sum>>)
    /\ [][\A w \in 1..Len(pipes) :
             Len(pipes'[w]) > Len(pipes[w]) =>
                 /\ child[w].state = "running"
                 /\ child'[w].state = "exited"
                 /\ \A v \in (1..Len(pipes)) \ {w} : pipes'[v] = pipes[v]]_vars

\* one record has been read and printed, another one, with a different sum,
\* is still in its pipe
OneRecordPerChildWitness ==
    /\ pc = "wait"
    /\ \E v, w \in 1..Len(child) :
          /\ child[v].state = "exited"
          /\ child[w].state = "exited"
          /\ pipes[v] = <<>>
          /\ pipes[w] # <<>>
          /\ child[v].result.sum # child[w].result.sum
          /\ child[w].result.sum > 0
          /\ \E k \in LinesOf("Child") : out[k][2] = v - 1

\* the block of child number k of n, as main computes it
RangeOf(k, n) ==
    [start |-> k * opts.block_size,
     end |-> IF k + 1 = n THEN -1 ELSE (k + 1) * opts.block_size - 1]

OffsetsPassedUnchanged ==
    \A k \in 1..Len(child) :
        /\ child[k].info.seek_to = WideSeekTo(k - 1)
        /\ child[k].info.read_to = WideReadTo(k - 1)
        /\ child[k].state = "ranged" =>
               (child[k].to_end <=> k = opts.child_count)

\* the child forked last has written its record and exited while add_child
\* has not yet registered the read end of its pipe
WroteBeforeRegistered ==
    /\ pc = "register"
    /\ child[Len(child)].state = "exited"
    /\ pipes[Len(child)] # <<>>
    /\ Len(child) - 1 \notin epoll

\* the "Child" lines that report child w
Reports(w) == {k \in LinesOf("Child") : out[k][2] = w - 1}

\* the run has ended with every child reported once and every record read
AllReportedOnce ==
    /\ pc = "done"
    /\ \A w \in 1..Len(child) : Cardinality(Reports(w)) = 1 /\ pipes[w] = <<>>

\* C19: a child that writes its record before the read end of its pipe is
\* registered is still reported: unless the run aborts in a later add_child,
\* its record is read, printed and counted like every other one, and no
\* child is reported twice.
NoLostWakeup ==
    /\ WroteBeforeRegistered ~> (pc = "failed" \/ AllReportedOnce)
    /\ [](\A w \in 1..Len(child) : Cardinality(Reports(w)) <= 1)
    /\ [](pc = "done" => final_sum = SumOfResults(Len(child)))

\* every child, the last one included, has written before the last
\* registration
NoLostWakeupWitness ==
    /\ WroteBeforeRegistered
    /\ Len(child) = MaxChildren
    /\ Len(input) > 0
    /\ \A w \in 1..MaxChildren : child[w].state = "exited" /\ pipes[w] # <<>>

\* a file, a child count N and no block size, N > L > 0
OverCase ==
    /\ pc \notin {"start", "failed"}
    /\ opts.input_file # "-"
    /\ ~opts.used_block
    /\ Len(input) > 0
    /\ opts.child_count > Len(input)

====
